---- MODULE Spec2Model ----
(***************************************************************************)
(* Model of ParameterDrivenIPOGenerator                                    *)
(* (parameter_driven_ipo_case_generator.py).                               *)
(*                                                                         *)
(* Conventions.                                                            *)
(*  - A calendar date (datetime) is its day ordinal, an integer;           *)
(*    timedelta(weeks = w) adds 7 * w.                                     *)
(*  - A date string is a record [fmt, day]: fmt "week" is the              *)
(*    "<y>年<m>月<d>日当周" convention, "iso" is "%Y-%m-%d", "week_bad"    *)
(*    contains the week suffix but does not parse, "bad" matches neither.  *)
(*  - A task text is a sequence of tokens, so that str.startswith is a     *)
(*    real prefix test.  The Chinese literals are transliterated.          *)
(*  - Floats with one or two decimals are scaled integers: time_compression*)
(*    in hundredths, preparation_factor, complexity_modifier and           *)
(*    audit_complexity in tenths.                                          *)
(***************************************************************************)
EXTENDS Integers, Sequences, FiniteSets, TLC

\* ------------------------------------------------------------------------
\* Bounds of the model
\* ------------------------------------------------------------------------
\* anchor dates are drawn from the day ordinals 0 .. MaxDay
MaxDay == 1
\* a batch holds at most MaxBatch cases
MaxBatch == 2
\* readiness lists have at most MaxList indicators
MaxList == 4

\* ------------------------------------------------------------------------
\* Values
\* ------------------------------------------------------------------------
None == "None"
Absent == "<absent>"

LLC_NeedsReform == "LLC (needs equity reform)"
JointStock == "already joint-stock company"
RedChipBuilt == "red-chip/VIE (built)"
RedChipToBuild == "red-chip/VIE (to build)"
Aggressive == "Aggressive"
Standard == "Standard"
Cautious == "Cautious"
MainBoard == "Main Board"
TwoFYInterim == "2FY + interim"
ThreeFY == "3FY"
ThreeFYInterim == "3FY + interim"
HighReadiness == "high readiness"
MediumReadiness == "medium readiness"
LowReadiness == "low readiness"
AlmostNotStarted == "almost not started"
NoneModule == "none"

WeekDate(d) == [fmt |-> "week", day |-> d]
IsoDate(d) == [fmt |-> "iso", day |-> d]
BadDate == [fmt |-> "bad", day |-> 0]
WeekBadDate == [fmt |-> "week_bad", day |-> 0]
\* the key is missing from case_params
AbsentDate == [fmt |-> "absent", day |-> 0]

\* ------------------------------------------------------------------------
\* Catalogs (the values the constructor loads)
\* ------------------------------------------------------------------------
Task(line, text, lead, off) ==
    [line |-> line, task |-> text, lead |-> lead, week_offset |-> off]

KickoffText == <<"convene project kickoff meeting">>
SponsorPrefix == <<"finalize sponsor">>
SponsorText == SponsorPrefix \o <<"and overall coordinator appointment letter and submit to the Exchange">>
A1Prefix == <<"submit A1 application to the Exchange">>
A1Text == A1Prefix
EquityBasePrefix == <<"resolve equity reform base date">>
EquityBaseText == EquityBasePrefix \o <<", equity incentive and other resolutions">>
EquityCompletionPrefix == <<"complete equity reform">>
EquityCompletionText == EquityCompletionPrefix \o <<"(hold founding meeting)">>

load_base_templates ==
    [core_tasks |->
        << Task("project management", KickoffText, "all", 0),
           Task("regulatory approval", SponsorText, "sponsor", 2),
           Task("regulatory approval", A1Text, "all parties", 23) >>,
     equity_reform_tasks |->
        << Task("equity reform", EquityBaseText, "company, PRC counsel", 2),
           Task("equity reform", EquityCompletionText, "company, PRC counsel", 10) >>]

load_variation_rules ==
    [company_structure |->
        (LLC_NeedsReform :> [add_modules |-> <<"equity_reform_tasks">>, complexity_modifier |-> 11]) @@
        (JointStock :> [add_modules |-> <<>>, complexity_modifier |-> 8]) @@
        (RedChipBuilt :> [add_modules |-> <<>>, complexity_modifier |-> 9]) @@
        (RedChipToBuild :> [add_modules |-> <<>>, complexity_modifier |-> 13]),
     project_pace |->
        (Aggressive :> [time_compression |-> 85, risk_level |-> "high"]) @@
        (Standard :> [time_compression |-> 100, risk_level |-> "medium"]) @@
        (Cautious :> [time_compression |-> 115, risk_level |-> "low"]),
     listing_board_hk |->
        (MainBoard :> [description |-> MainBoard]) @@
        ("GEM" :> [description |-> "GEM"]),
     a1_filing_financials |->
        (TwoFYInterim :> [audit_complexity |-> 8]) @@
        (ThreeFY :> [audit_complexity |-> 10]) @@
        (ThreeFYInterim :> [audit_complexity |-> 12]),
     ipo_readiness |->
        (HighReadiness :> [preparation_factor |-> 9]) @@
        (MediumReadiness :> [preparation_factor |-> 10]) @@
        (LowReadiness :> [preparation_factor |-> 12])]

\* ------------------------------------------------------------------------
\* Tool functions
\* ------------------------------------------------------------------------
ValueError == "ValueError"
KeyError == "KeyError"

\* A result is [raised |-> None, value |-> v] or [raised |-> <error>, value |-> 0].
Ok(v) == [raised |-> None, value |-> v]
Raise(e) == [raised |-> e, value |-> 0]

\* line 191: the week suffix is stripped and the rest parsed with "%Y-%m-%d";
\* line 194: anything else is parsed as an ISO date
parse_date(date_str) ==
    IF date_str.fmt = "week" \/ date_str.fmt = "week_bad"
    THEN IF date_str.fmt = "week" THEN Ok(date_str.day) ELSE Raise(ValueError)
    ELSE IF date_str.fmt = "iso" THEN Ok(date_str.day) ELSE Raise(ValueError)

format_date(date) == WeekDate(date)

RECURSIVE CountNot(_, _)
CountNot(list, x) ==
    IF list = <<>> THEN 0
    ELSE (IF Head(list) # x THEN 1 ELSE 0) + CountNot(Tail(list), x)

Contains(list, x) == \E i \in 1..Len(list) : list[i] = x

\* an off-by-one in the threshold
determine_ipo_readiness_level_strict(readiness_list) ==
    IF Contains(readiness_list, AlmostNotStarted) THEN LowReadiness
    ELSE IF CountNot(readiness_list, AlmostNotStarted) > 3 THEN HighReadiness
    ELSE MediumReadiness

\* lines 199-204
determine_ipo_readiness_level(readiness_list) ==
    IF Contains(readiness_list, AlmostNotStarted) THEN LowReadiness
    ELSE IF CountNot(readiness_list, AlmostNotStarted) >= 3 THEN HighReadiness
    ELSE MediumReadiness

startswith(s, prefix) ==
    Len(prefix) <= Len(s) /\ SubSeq(s, 1, Len(prefix)) = prefix

\* dict.get(key, default)
Get(d, key, default) == IF key \in DOMAIN d THEN d[key] ELSE default

Max(a, b) == IF a >= b THEN a ELSE b


Min(S) == CHOOSE x \in S : \A y \in S : x <= y

\* ------------------------------------------------------------------------
\* generate_case_timeline, step by step
\* ------------------------------------------------------------------------
DateFields ==
    << "project_start_date", "sponsor_agreement_date", "equity_reform_base_date",
       "equity_reform_completion_date", "a1_submission_date" >>

\* self._parse_date(case_params[key]): a missing key raises KeyError
ParseParam(case_params, key) ==
    IF case_params[key].fmt = "absent" THEN Raise(KeyError)
    ELSE parse_date(case_params[key])

\* case_params.get(key, default)
GetParam(case_params, key, default) ==
    IF case_params[key] = Absent THEN default ELSE case_params[key]

Failure(e, f) == [raised |-> e, field |-> f]

\* lines 211-230: parse the five anchor dates, read the categorical
\* parameters, look the rules up and compose the two factors.  The first
\* statement that raises ends the call.
resolve_parameters(case_params, rules) ==
    LET bad == {i \in 1..Len(DateFields) :
                    ParseParam(case_params, DateFields[i]).raised # None}
        company_structure == GetParam(case_params, "current_structure", LLC_NeedsReform)
        project_pace == GetParam(case_params, "project_pace", Standard)
        listing_board == GetParam(case_params, "listing_board_hk", MainBoard)
        optional_modules ==
            IF Contains(case_params.optional_modules, NoneModule) THEN <<>>
            ELSE case_params.optional_modules
        ipo_readiness == case_params.ipo_readiness
        a1_financials == GetParam(case_params, "a1_filing_financials", ThreeFY)
        readiness_level == determine_ipo_readiness_level(ipo_readiness)
    IN  IF bad # {}
        THEN Failure(ParseParam(case_params, DateFields[Min(bad)]).raised, DateFields[Min(bad)])
        ELSE IF company_structure \notin DOMAIN rules.company_structure
        THEN Failure(KeyError, "current_structure")
        ELSE IF project_pace \notin DOMAIN rules.project_pace
        THEN Failure(KeyError, "project_pace")
        ELSE IF a1_financials \notin DOMAIN rules.a1_filing_financials
        THEN Failure(KeyError, "a1_filing_financials")
        ELSE IF readiness_level \notin DOMAIN rules.ipo_readiness
        THEN Failure(KeyError, "ipo_readiness")
        ELSE
        LET structure_rules == rules.company_structure[company_structure]
            pace_rules == rules.project_pace[project_pace]
            financial_rules == rules.a1_filing_financials[a1_financials]
            readiness_rules == rules.ipo_readiness[readiness_level]
        IN  [raised |-> None,
             field |-> None,
             project_start_date |-> ParseParam(case_params, "project_start_date").value,
             sponsor_agreement_date |-> ParseParam(case_params, "sponsor_agreement_date").value,
             equity_base_date |-> ParseParam(case_params, "equity_reform_base_date").value,
             equity_completion_date |-> ParseParam(case_params, "equity_reform_completion_date").value,
             a1_date |-> ParseParam(case_params, "a1_submission_date").value,
             company_structure |-> company_structure,
             project_pace |-> project_pace,
             listing_board |-> listing_board,
             optional_modules |-> optional_modules,
             a1_financials |-> a1_financials,
             structure_rules |-> structure_rules,
             readiness_level |-> readiness_level,
             \* thousandths
             time_factor |-> pace_rules.time_compression * readiness_rules.preparation_factor,
             \* hundredths
             complexity_factor |-> structure_rules.complexity_modifier * financial_rules.audit_complexity]

\* lines 233-234: tasks.extend(self.base_templates.get(mod, [])) for each module
RECURSIVE ExtendModules(_, _, _)
ExtendModules(tasks, mods, templates) ==
    IF mods = <<>> THEN tasks
    ELSE ExtendModules(tasks \o Get(templates, Head(mods), <<>>), Tail(mods), templates)

\* a slip that would alias the catalog's list instead of copying it:
\* tasks = self.base_templates["core_tasks"], then extended in place
build_tasks_aliased(templates, structure_rules) ==
    LET tasks == ExtendModules(templates.core_tasks, structure_rules.add_modules, templates)
    IN  [tasks |-> tasks, base_templates |-> [templates EXCEPT !.core_tasks = tasks]]

\* a loop over the modules that would be left out
build_tasks_core_only(templates, structure_rules) ==
    [tasks |-> <<>> \o templates.core_tasks, base_templates |-> templates]

\* lines 231-234: a fresh list, extended with the core group and the
\* structure's modules; the catalog's own lists are only read
build_tasks(templates, structure_rules) ==
    [tasks |-> ExtendModules(<<>> \o templates.core_tasks, structure_rules.add_modules, templates),
     base_templates |-> templates]

TimeFactorScale == 1000
DaysPerWeek == 7

\* a slip that would leave the offset unclamped and scale the kickoff too
week_offset_shifted(t, locals) ==
    ((t.week_offset + 1) * locals.time_factor) \div TimeFactorScale

\* line 237: max(0, int(t["week offset"] * time_factor))
week_offset(t, locals) ==
    Max(0, (t.week_offset * locals.time_factor) \div TimeFactorScale)

\* a slip that would apply the anchors only when the computed date is later
resolve_date_no_override(t, locals) ==
    LET date0 == locals.project_start_date + DaysPerWeek * week_offset(t, locals)
        date1 == IF startswith(t.task, SponsorPrefix) /\ date0 > locals.sponsor_agreement_date
                 THEN locals.sponsor_agreement_date ELSE date0
        date2 == IF startswith(t.task, EquityBasePrefix) THEN locals.equity_base_date ELSE date1
        date3 == IF startswith(t.task, EquityCompletionPrefix) THEN locals.equity_completion_date ELSE date2
    IN  IF startswith(t.task, A1Prefix) THEN locals.a1_date ELSE date3

\* lines 237-246: the scaled offset from project start, then the four
\* anchor overrides in the order they are written
resolve_date(t, locals) ==
    LET date0 == locals.project_start_date + DaysPerWeek * week_offset(t, locals)
        date1 == IF startswith(t.task, SponsorPrefix) THEN locals.sponsor_agreement_date ELSE date0
        date2 == IF startswith(t.task, EquityBasePrefix) THEN locals.equity_base_date ELSE date1
        date3 == IF startswith(t.task, EquityCompletionPrefix) THEN locals.equity_completion_date ELSE date2
    IN  IF startswith(t.task, A1Prefix) THEN locals.a1_date ELSE date3

\* lines 247-253
timeline_entry(t, locals) ==
    [date |-> format_date(resolve_date(t, locals)),
     line |-> t.line,
     main_task |-> t.task,
     lead |-> t.lead,
     sort_date |-> resolve_date(t, locals)]

\* lines 235-253
project_timeline(tasks, locals) ==
    [i \in 1..Len(tasks) |-> timeline_entry(tasks[i], locals)]

\* an unstable sort: an entry is placed before the entries of the same date
RECURSIVE sort_unstable(_)
sort_unstable(timeline) ==
    IF timeline = <<>> THEN <<>>
    ELSE LET rest == sort_unstable(SubSeq(timeline, 1, Len(timeline) - 1))
             x == timeline[Len(timeline)]
             k == Cardinality({i \in 1..Len(rest) : rest[i].sort_date < x.sort_date})
         IN  SubSeq(rest, 1, k) \o <<x>> \o SubSeq(rest, k + 1, Len(rest))

\* line 254: list.sort(key = sort_date) is stable: an entry is placed after
\* every entry whose key is not greater
RECURSIVE sort_by_sort_date(_)
sort_by_sort_date(timeline) ==
    IF timeline = <<>> THEN <<>>
    ELSE LET rest == sort_by_sort_date(SubSeq(timeline, 1, Len(timeline) - 1))
             x == timeline[Len(timeline)]
             k == Cardinality({i \in 1..Len(rest) : rest[i].sort_date <= x.sort_date})
         IN  SubSeq(rest, 1, k) \o <<x>> \o SubSeq(rest, k + 1, Len(rest))

\* lines 255-256: item.pop("sort_date")
pop_sort_date(timeline) ==
    [i \in 1..Len(timeline) |->
        [date |-> timeline[i].date, line |-> timeline[i].line,
         main_task |-> timeline[i].main_task, lead |-> timeline[i].lead]]


\* ------------------------------------------------------------------------
\* LLM review
\* ------------------------------------------------------------------------
Client == "OpenAI client"

\* What the one request to the reviewer can do: answer with a verdict that
\* passes or fails, answer with a JSON object of another shape, or fail: the
\* request raises, the response has no choices, its content is None, or its
\* content is not JSON.
LLMVerdicts == {"verdict passed", "verdict failed", "other JSON object"}
LLMFailures == {"APIConnectionError", "IndexError", "TypeError", "JSONDecodeError"}
LLMOutcomes == LLMVerdicts \cup LLMFailures
NoCall == "no call"

Verdict(passed, summary) ==
    [verdict_keys |-> TRUE, review_passed |-> passed, summary |-> summary]
OtherJson == [verdict_keys |-> FALSE, review_passed |-> FALSE, summary |-> <<>>]
DisabledVerdict == Verdict(TRUE, <<"LLM not enabled">>)
FailedVerdict(e) == Verdict(TRUE, <<"LLM call failed", e>>)
NoReview == [verdict_keys |-> FALSE, review_passed |-> FALSE, summary |-> <<"no review yet">>]

\* a handler that would catch only the transport error
call_llm_for_review_narrow(client, outcome) ==
    IF client = None
    THEN [raised |-> None, review |-> DisabledVerdict, requests |-> 0]
    ELSE IF outcome = "APIConnectionError"
    THEN [raised |-> None, review |-> FailedVerdict(outcome), requests |-> 1]
    ELSE IF outcome \in LLMFailures
    THEN [raised |-> outcome, review |-> NoReview, requests |-> 1]
    ELSE IF outcome = "other JSON object"
    THEN [raised |-> None, review |-> OtherJson, requests |-> 1]
    ELSE [raised |-> None, review |-> Verdict(outcome = "verdict passed", <<"reviewer summary">>),
          requests |-> 1]

\* a guard that would be dropped: the request is made whatever llm_client is
call_llm_for_review_unguarded(client, outcome) ==
    IF outcome \in LLMFailures \/ outcome = NoCall
    THEN [raised |-> None, review |-> FailedVerdict(outcome), requests |-> 1]
    ELSE IF outcome = "other JSON object"
    THEN [raised |-> None, review |-> OtherJson, requests |-> 1]
    ELSE [raised |-> None, review |-> Verdict(outcome = "verdict passed", <<"reviewer summary">>),
          requests |-> 1]

\* lines 279-294: no client, no request; else one request, whose every
\* exception is caught and turned into a passing verdict, and whose parsed
\* JSON content is returned as it is
call_llm_for_review(client, outcome) ==
    IF client = None
    THEN [raised |-> None, review |-> DisabledVerdict, requests |-> 0]
    ELSE IF outcome \in LLMFailures
    THEN [raised |-> None, review |-> FailedVerdict(outcome), requests |-> 1]
    ELSE IF outcome = "other JSON object"
    THEN [raised |-> None, review |-> OtherJson, requests |-> 1]
    ELSE [raised |-> None, review |-> Verdict(outcome = "verdict passed", <<"reviewer summary">>),
          requests |-> 1]

\* lines 258-272
case_report(params, locals, sorted, verdict) ==
    [case_name |-> params.case_name,
     params |-> params,
     features |->
        [total_tasks |-> Len(sorted),
         company_structure |-> locals.company_structure,
         project_pace |-> locals.project_pace,
         listing_board |-> locals.listing_board,
         a1_financials |-> locals.a1_financials,
         readiness_level |-> locals.readiness_level,
         complexity_factor |-> locals.complexity_factor,
         time_factor |-> locals.time_factor],
     llm_review |-> verdict]


\* ------------------------------------------------------------------------
\* Inputs
\* ------------------------------------------------------------------------
Intermediaries == "core intermediaries engaged"
FinancialReview == "preliminary financial review"
Governance == "governance initially regularised"
UnknownValue == "<not an option>"

\* lines 301-315, days counted from 2025-08-04
Case1 ==
    [case_name |-> "Case1 - standard equity reform project",
     project_start_date |-> WeekDate(0),
     sponsor_agreement_date |-> WeekDate(14),
     equity_reform_base_date |-> WeekDate(14),
     equity_reform_completion_date |-> WeekDate(70),
     a1_submission_date |-> WeekDate(161),
     performance_period |-> "2023-2025",
     current_structure |-> LLC_NeedsReform,
     project_pace |-> Standard,
     listing_board_hk |-> MainBoard,
     a1_filing_financials |-> ThreeFY,
     ipo_readiness |-> <<FinancialReview>>,
     optional_modules |-> <<>>]

predefined_cases == << [id |-> "Case1", cfg |-> Case1] >>

Days == 0..MaxDay
DateStrs == {WeekDate(d) : d \in Days} \cup {IsoDate(0), BadDate}
StartStrs == DateStrs \cup {WeekBadDate, AbsentDate}

\* the anchor dates vary
DateFamily ==
    { [Case1 EXCEPT !.case_name = "dates",
                    !.project_start_date = d[1],
                    !.sponsor_agreement_date = d[2],
                    !.equity_reform_base_date = d[3],
                    !.equity_reform_completion_date = d[4],
                    !.a1_submission_date = d[5],
                    !.current_structure = st,
                    !.project_pace = pace] :
        d \in StartStrs \X DateStrs \X DateStrs \X DateStrs \X DateStrs,
        st \in {LLC_NeedsReform, JointStock},
        pace \in {Standard, Cautious} }

\* the categorical parameters vary
CategoricalFamily ==
    { [Case1 EXCEPT !.case_name = "categories",
                    !.current_structure = c[1],
                    !.project_pace = c[2],
                    !.a1_filing_financials = c[3],
                    !.ipo_readiness = c[4],
                    !.optional_modules = c[5]] :
        c \in {LLC_NeedsReform, JointStock, RedChipBuilt, RedChipToBuild, UnknownValue, Absent}
              \X {Aggressive, Standard, Cautious, UnknownValue}
              \X {TwoFYInterim, ThreeFY, UnknownValue, Absent}
              \X {<<>>, <<AlmostNotStarted>>, <<Intermediaries, FinancialReview, Governance>>}
              \X {<<>>, <<NoneModule, "IT system review">>} }

SeqsUpTo(S, n) == UNION {[1..m -> S] : m \in 0..n}

\* the readiness indicators vary
ReadinessFamily ==
    { [Case1 EXCEPT !.case_name = "readiness", !.ipo_readiness = l] :
        l \in SeqsUpTo({Intermediaries, FinancialReview, Governance, AlmostNotStarted}, MaxList) }

ParameterSets == DateFamily \cup CategoricalFamily \cup ReadinessFamily

\* The case table of generate_predefined_cases: the table as written, and
\* tables that also hold a case with an unparsable date or a structure that
\* is no key of the rule catalog.
BatchConfigs ==
    { Case1,
      [Case1 EXCEPT !.case_name = "bad date", !.project_start_date = BadDate],
      [Case1 EXCEPT !.case_name = "unknown structure", !.current_structure = UnknownValue] }

CaseIds == <<"Case1", "Case2", "Case3", "Case4">>

CaseTables ==
    { [i \in 1..Len(cfgs) |-> [id |-> CaseIds[i], cfg |-> cfgs[i]]] :
        cfgs \in SeqsUpTo(BatchConfigs, MaxBatch) \ {<<>>} }

\* ------------------------------------------------------------------------
\* State
\* ------------------------------------------------------------------------
VARIABLES
    base_templates,     \* self.base_templates
    variation_rules,    \* self.variation_rules
    llm_client,         \* self.llm_client: None or a client
    pc,                 \* position in generate_case_timeline
    caller,             \* who called generate_case_timeline
    case_params,        \* its argument
    locals,             \* the values of lines 211-230, or the failure
    tasks,              \* the working task list
    timeline,           \* the timeline
    review,             \* the review verdict
    report,             \* the report
    llm_requests,       \* requests sent to the reviewer by this call
    llm_outcome,        \* what the reviewer did with the request, or NoCall
    error,              \* the exception that ended the call, or None
    batch_pc,           \* position in generate_predefined_cases
    cases,              \* its case table
    k,                  \* index of the case of the current iteration
    result              \* its result so far

vars ==
    << base_templates, variation_rules, llm_client, pc, caller, case_params, locals,
       tasks, timeline, review, report, llm_requests, llm_outcome, error, batch_pc,
       cases, k, result >>

fields == << base_templates, variation_rules, llm_client >>
frame ==
    << case_params, locals, tasks, timeline, review, report, llm_requests, llm_outcome, error >>
batch == << batch_pc, cases, k, result >>

NoParams == [case_name |-> None]
NoLocals == [raised |-> None, field |-> "not resolved"]
NoReport == [case_name |-> None]

EmptyFrame ==
    /\ case_params = NoParams
    /\ locals = NoLocals
    /\ tasks = <<>>
    /\ timeline = <<>>
    /\ review = NoReview
    /\ report = NoReport
    /\ llm_requests = 0
    /\ llm_outcome = NoCall
    /\ error = None

\* lines 22-26 and 31-35: the catalogs are loaded; the client exists when
\* the openai library and OPENAI_API_KEY do
InitFields ==
    /\ base_templates = load_base_templates
    /\ llm_client \in {None, Client}

InitControl ==
    /\ pc = "idle"
    /\ caller = None
    /\ EmptyFrame
    /\ batch_pc = None
    /\ cases = <<>>
    /\ k = 0
    /\ result = <<>>

Init ==
    /\ InitFields
    /\ variation_rules = load_variation_rules
    /\ InitControl


\* ------------------------------------------------------------------------
\* generate_case_timeline
\* ------------------------------------------------------------------------
ClearFrame ==
    /\ case_params' = NoParams
    /\ locals' = NoLocals
    /\ tasks' = <<>>
    /\ timeline' = <<>>
    /\ review' = NoReview
    /\ report' = NoReport
    /\ llm_requests' = 0
    /\ llm_outcome' = NoCall
    /\ error' = None

\* a client calls generate_case_timeline(case_params)
Call ==
    /\ pc = "idle"
    /\ batch_pc = None
    /\ pc' = "resolve"
    /\ caller' = "client"
    /\ \E p \in ParameterSets : case_params' = p
    /\ UNCHANGED << fields, locals, tasks, timeline, review, report, llm_requests,
                    llm_outcome, error, batch >>

\* lines 211-230
Resolve ==
    /\ pc = "resolve"
    /\ locals' = resolve_parameters(case_params, variation_rules)
    /\ error' = locals'.raised
    /\ pc' = IF locals'.raised # None THEN "raised" ELSE "build"
    /\ UNCHANGED << fields, caller, case_params, tasks, timeline, review, report,
                    llm_requests, llm_outcome, batch >>

\* lines 231-234
BuildTasks ==
    /\ pc = "build"
    /\ LET built == build_tasks(base_templates, locals.structure_rules)
       IN  /\ tasks' = built.tasks
           /\ base_templates' = built.base_templates
    /\ pc' = "project"
    /\ UNCHANGED << variation_rules, llm_client, caller, case_params, locals, timeline,
                    review, report, llm_requests, llm_outcome, error, batch >>

\* lines 235-253
Project ==
    /\ pc = "project"
    /\ timeline' = project_timeline(tasks, locals)
    /\ pc' = "sort"
    /\ UNCHANGED << fields, caller, case_params, locals, tasks, review, report,
                    llm_requests, llm_outcome, error, batch >>

\* lines 254-256
Sort ==
    /\ pc = "sort"
    /\ timeline' = pop_sort_date(sort_by_sort_date(timeline))
    /\ pc' = "review"
    /\ UNCHANGED << fields, caller, case_params, locals, tasks, review, report,
                    llm_requests, llm_outcome, error, batch >>

\* line 257 and lines 279-294; the reviewer's behaviour is the input
Review ==
    /\ pc = "review"
    /\ \E outcome \in (IF llm_client = None THEN {NoCall} ELSE LLMOutcomes) :
        LET r == call_llm_for_review(llm_client, outcome)
        IN  /\ review' = r.review
            /\ llm_requests' = llm_requests + r.requests
            /\ llm_outcome' = outcome
            /\ error' = r.raised
            /\ pc' = IF r.raised # None THEN "raised" ELSE "report"
    /\ UNCHANGED << fields, caller, case_params, locals, tasks, timeline, report, batch >>

\* lines 258-273
Report ==
    /\ pc = "report"
    /\ report' = case_report(case_params, locals, timeline, review)
    /\ pc' = "returned"
    /\ UNCHANGED << fields, caller, case_params, locals, tasks, timeline, review,
                    llm_requests, llm_outcome, error, batch >>

\* line 274: the client receives (timeline, report, review)
Return ==
    /\ pc = "returned"
    /\ caller = "client"
    /\ pc' = "idle"
    /\ caller' = None
    /\ ClearFrame
    /\ UNCHANGED << fields, batch >>

\* the exception reaches the client
Propagate ==
    /\ pc = "raised"
    /\ caller = "client"
    /\ pc' = "idle"
    /\ caller' = None
    /\ ClearFrame
    /\ UNCHANGED << fields, batch >>

\* ------------------------------------------------------------------------
\* generate_predefined_cases
\* ------------------------------------------------------------------------
\* lines 299-317
CallBatch ==
    /\ pc = "idle"
    /\ batch_pc = None
    /\ batch_pc' = "loop"
    /\ \E table \in CaseTables : cases' = table
    /\ k' = 1
    /\ result' = <<>>
    /\ UNCHANGED << fields, pc, caller, frame >>

\* lines 318-319: the next case is handed to generate_case_timeline
BatchCall ==
    /\ batch_pc = "loop"
    /\ pc = "idle"
    /\ k <= Len(cases)
    /\ pc' = "resolve"
    /\ caller' = "batch"
    /\ case_params' = cases[k].cfg
    /\ UNCHANGED << fields, locals, tasks, timeline, review, report, llm_requests,
                    llm_outcome, error, batch >>

\* line 319: result[k] = the returned triple
BatchStore ==
    /\ batch_pc = "loop"
    /\ pc = "returned"
    /\ caller = "batch"
    /\ result' = Append(result, [id |-> cases[k].id, timeline |-> timeline,
                                 report |-> report, review |-> review])
    /\ k' = k + 1
    /\ pc' = "idle"
    /\ caller' = None
    /\ ClearFrame
    /\ UNCHANGED << fields, batch_pc, cases >>

\* line 319 sits in no try block: an exception of generate_case_timeline
\* leaves the loop and the function, and the local result is lost
BatchRaise ==
    /\ batch_pc = "loop"
    /\ pc = "raised"
    /\ caller = "batch"
    /\ batch_pc' = "raised"
    /\ result' = <<>>
    /\ pc' = "idle"
    /\ caller' = None
    /\ ClearFrame
    /\ UNCHANGED << fields, cases, k >>

\* line 320
BatchReturn ==
    /\ batch_pc = "loop"
    /\ pc = "idle"
    /\ k > Len(cases)
    /\ batch_pc' = "returned"
    /\ UNCHANGED << fields, pc, caller, frame, cases, k, result >>

\* lines 325-332: the caller is done with the result, or with the exception
BatchDone ==
    /\ batch_pc \in {"returned", "raised"}
    /\ batch_pc' = None
    /\ cases' = <<>>
    /\ k' = 0
    /\ result' = <<>>
    /\ UNCHANGED << fields, pc, caller, frame >>

Next ==
    \/ Call
    \/ Resolve
    \/ BuildTasks
    \/ Project
    \/ Sort
    \/ Review
    \/ Report
    \/ Return
    \/ Propagate
    \/ CallBatch
    \/ BatchCall
    \/ BatchStore
    \/ BatchRaise
    \/ BatchReturn
    \/ BatchDone

Spec == Init /\ [][Next]_vars


\* the rule catalog as a maintainer may extend it: the structure that needs
\* equity reform names task groups, some of them missing from the task catalog
ModuleLists ==
    { <<"equity_reform_tasks">>, <<"esop_tasks">>, <<"equity_reform_tasks", "esop_tasks">> }

RuleCatalogs ==
    { [load_variation_rules EXCEPT !.company_structure[LLC_NeedsReform].add_modules = m] :
        m \in ModuleLists }

InitCatalog ==
    /\ InitFields
    /\ variation_rules \in RuleCatalogs
    /\ InitControl

SpecCatalog == InitCatalog /\ [][Next]_vars

\* ------------------------------------------------------------------------
\* Properties
\* ------------------------------------------------------------------------
\* the timeline is sorted and stripped
Sorted == pc \in {"review", "report", "returned"}

\* the calendar date an entry carries
EntryDay(e) == parse_date(e.date).value
ParamDay(key) == parse_date(case_params[key]).value

Milestones ==
    << [prefix |-> SponsorPrefix, anchor |-> "sponsor_agreement_date"],
       [prefix |-> EquityBasePrefix, anchor |-> "equity_reform_base_date"],
       [prefix |-> EquityCompletionPrefix, anchor |-> "equity_reform_completion_date"],
       [prefix |-> A1Prefix, anchor |-> "a1_submission_date"] >>

IsMilestone(text) == \E m \in 1..Len(Milestones) : startswith(text, Milestones[m].prefix)

\* the working task list as the catalogs define it
RECURSIVE GroupsOf(_)
GroupsOf(mods) ==
    IF mods = <<>> THEN <<>>
    ELSE load_base_templates[Head(mods)] \o GroupsOf(Tail(mods))

WorkingList ==
    load_base_templates.core_tasks
        \o GroupsOf(load_variation_rules.company_structure[locals.company_structure].add_modules)

\* the place of a timeline entry in the working task list
PlaceOf(e) == CHOOSE i \in 1..Len(WorkingList) : WorkingList[i].task = e.main_task

\* C1: the returned timeline is the working task list (core tasks, then the
\* tasks of each added module, in catalog order) stably sorted by resolved
\* date: every task appears once, dates never decrease, and entries of the
\* same date keep the order of the working list.
C1_TimelineStablySorted ==
    Sorted =>
        /\ tasks = WorkingList
        /\ Len(timeline) = Len(WorkingList)
        /\ \A i \in 1..Len(WorkingList) :
                \E j \in 1..Len(timeline) :
                    /\ timeline[j].main_task = WorkingList[i].task
                    /\ timeline[j].line = WorkingList[i].line
                    /\ timeline[j].lead = WorkingList[i].lead
        /\ \A i, j \in 1..Len(timeline) :
                i < j =>
                    /\ EntryDay(timeline[i]) <= EntryDay(timeline[j])
                    /\ EntryDay(timeline[i]) = EntryDay(timeline[j])
                            => PlaceOf(timeline[i]) < PlaceOf(timeline[j])

\* a returned timeline in which the sort moved a later task before an earlier
\* one and two tasks of the same date kept their order
C1_Witness ==
    /\ pc = "returned"
    /\ \E i, j \in 1..Len(timeline) :
            i < j /\ PlaceOf(timeline[i]) > PlaceOf(timeline[j])
    /\ \E i, j \in 1..Len(timeline) :
            i < j /\ EntryDay(timeline[i]) = EntryDay(timeline[j])

\* C2: each milestone task that is present carries exactly its anchor date
\* of the parameter set, whatever the pace, the readiness and the task's
\* nominal offset.
C2_MilestonesCarryAnchors ==
    Sorted =>
        \A j \in 1..Len(timeline) : \A m \in 1..Len(Milestones) :
            startswith(timeline[j].main_task, Milestones[m].prefix)
                => EntryDay(timeline[j]) = ParamDay(Milestones[m].anchor)

\* all four milestones are present, the time factor is not 1, and the
\* sponsor task's scaled offset would have given another date
C2_Witness ==
    /\ pc = "returned"
    /\ \A m \in 1..Len(Milestones) :
            \E j \in 1..Len(timeline) : startswith(timeline[j].main_task, Milestones[m].prefix)
    /\ report.features.time_factor # TimeFactorScale
    /\ ParamDay("sponsor_agreement_date")
            # ParamDay("project_start_date")
                + DaysPerWeek * ((2 * report.features.time_factor) \div TimeFactorScale)

\* C3: every task that is no milestone resolves to the project start date
\* plus a whole, non-negative number of weeks, the truncated product of its
\* nominal offset and the time factor; the kickoff task resolves to the
\* project start date.
C3_OrdinaryTasksNotBeforeStart ==
    Sorted =>
        \A j \in 1..Len(timeline) :
            ~IsMilestone(timeline[j].main_task) =>
                LET d == EntryDay(timeline[j]) - ParamDay("project_start_date")
                    nominal == WorkingList[PlaceOf(timeline[j])].week_offset
                    scaled == (nominal * locals.time_factor) \div TimeFactorScale
                IN  /\ d >= 0
                    /\ d % DaysPerWeek = 0
                    /\ d \div DaysPerWeek = (IF scaled < 0 THEN 0 ELSE scaled)
                    /\ timeline[j].main_task = KickoffText => d = 0

\* the kickoff task is in a returned timeline whose time factor exceeds 1,
\* behind a milestone whose anchor lies before the project start
C3_Witness ==
    /\ pc = "returned"
    /\ report.features.time_factor > TimeFactorScale
    /\ \E j \in 2..Len(timeline) :
            /\ timeline[j].main_task = KickoffText
            /\ EntryDay(timeline[j]) = ParamDay("project_start_date")
            /\ EntryDay(timeline[1]) < EntryDay(timeline[j])

\* whether generate_case_timeline returns for these parameters
Succeeds(cfg) == resolve_parameters(cfg, variation_rules).raised = None

StoredReviews == {result[j].review : j \in 1..Len(result)}
    \cup {result[j].report.llm_review : j \in 1..Len(result)}

IsDisabledVerdict(v) ==
    /\ v.verdict_keys
    /\ v.review_passed
    /\ v.summary = <<"LLM not enabled">>

\* C6: when no reviewer is configured, the review step sends no request and
\* returns the same fixed verdict (passed, "LLM not enabled"), and that is
\* the verdict in the report of every case.
C6_NoReviewerFixedVerdict ==
    llm_client = None =>
        /\ llm_requests = 0
        /\ pc \in {"report", "returned"} => IsDisabledVerdict(review)
        /\ pc = "returned" => IsDisabledVerdict(report.llm_review)
        /\ \A v \in StoredReviews : IsDisabledVerdict(v)

\* without a reviewer, the second case of a batch has returned and the
\* first one's report is stored
C6_Witness ==
    /\ llm_client = None
    /\ pc = "returned"
    /\ caller = "batch"
    /\ Len(result) = 1
    /\ IsDisabledVerdict(report.llm_review)
    /\ IsDisabledVerdict(result[1].report.llm_review)

\* the keys generate_case_timeline looks up in the two catalogs
StructureKey == GetParam(case_params, "current_structure", LLC_NeedsReform)
PaceKey == GetParam(case_params, "project_pace", Standard)
FinancialsKey == GetParam(case_params, "a1_filing_financials", ThreeFY)

AllKeysKnown ==
    /\ StructureKey \in DOMAIN variation_rules.company_structure
    /\ PaceKey \in DOMAIN variation_rules.project_pace
    /\ FinancialsKey \in DOMAIN variation_rules.a1_filing_financials
    /\ determine_ipo_readiness_level(case_params.ipo_readiness)
            \in DOMAIN variation_rules.ipo_readiness
    /\ \A m \in 1..Len(variation_rules.company_structure[StructureKey].add_modules) :
            variation_rules.company_structure[StructureKey].add_modules[m]
                \in DOMAIN base_templates

C7_UnknownParameterRaises ==
    (pc \notin {"idle", "resolve"}
        /\ (\A i \in 1..Len(DateFields) : ParseParam(case_params, DateFields[i]).raised = None)
        /\ ( \/ StructureKey \notin DOMAIN variation_rules.company_structure
             \/ PaceKey \notin DOMAIN variation_rules.project_pace
             \/ FinancialsKey \notin DOMAIN variation_rules.a1_filing_financials ))
    => (pc = "raised" /\ error = KeyError)

\* the readiness level as the classification rule states it
Classified(indicators) ==
    IF \E i \in DOMAIN indicators : indicators[i] = AlmostNotStarted THEN LowReadiness
    ELSE IF Cardinality({i \in DOMAIN indicators : indicators[i] # AlmostNotStarted}) >= 3
         THEN HighReadiness
    ELSE MediumReadiness

\* C8: the readiness level is a total function of the indicators: Low when
\* the sentinel is present, whatever else is; else High with at least three
\* other indicators; else Medium, also for no indicators.  No case fails on it.
C8_ReadinessClassification ==
    /\ pc \in {"build", "project", "sort", "review", "report", "returned"} =>
            /\ locals.readiness_level = Classified(case_params.ipo_readiness)
            /\ locals.readiness_level \in {LowReadiness, MediumReadiness, HighReadiness}
    /\ pc = "returned" =>
            report.features.readiness_level = Classified(case_params.ipo_readiness)
    /\ pc = "raised" => locals.field # "ipo_readiness"

\* the sentinel beside three other indicators gave Low
C8_Witness ==
    /\ pc = "returned"
    /\ Cardinality({i \in DOMAIN case_params.ipo_readiness :
                        case_params.ipo_readiness[i] # AlmostNotStarted}) >= 3
    /\ \E i \in DOMAIN case_params.ipo_readiness :
            case_params.ipo_readiness[i] = AlmostNotStarted
    /\ report.features.readiness_level = LowReadiness

\* generate_case_timeline as a function of its parameters: the timeline of a
\* call that returns
TimelineOf(params) ==
    LET l == resolve_parameters(params, variation_rules)
        built == build_tasks(base_templates, l.structure_rules)
    IN  pop_sort_date(sort_by_sort_date(project_timeline(built.tasks, l)))

TaskCountOf(params) ==
    case_report(params, resolve_parameters(params, variation_rules),
                TimelineOf(params), NoReview).features.total_tasks

NoModuleStructures ==
    {st \in DOMAIN load_variation_rules.company_structure :
        load_variation_rules.company_structure[st].add_modules = <<>>}

\* C9: with all other parameters the same, the structure that needs equity
\* reform yields strictly more timeline entries and a strictly larger task
\* count than any structure that adds no modules, and the core tasks are in
\* both timelines.
C9_ReformAddsTasks ==
    (pc = "returned" /\ locals.company_structure = LLC_NeedsReform) =>
        \A st \in NoModuleStructures :
            LET other == [case_params EXCEPT !.current_structure = st]
                otherTimeline == TimelineOf(other)
            IN  /\ Succeeds(other)
                /\ Len(timeline) > Len(otherTimeline)
                /\ report.features.total_tasks > TaskCountOf(other)
                /\ \A c \in 1..Len(load_base_templates.core_tasks) :
                        /\ \E j \in 1..Len(timeline) :
                                timeline[j].main_task = load_base_templates.core_tasks[c].task
                        /\ \E j \in 1..Len(otherTimeline) :
                                otherTimeline[j].main_task
                                    = load_base_templates.core_tasks[c].task

\* a reform case returned five tasks where the joint-stock one has three
C9_Witness ==
    /\ pc = "returned"
    /\ locals.company_structure = LLC_NeedsReform
    /\ report.features.total_tasks = Len(load_base_templates.core_tasks)
            + Len(load_base_templates.equity_reform_tasks)
    /\ TaskCountOf([case_params EXCEPT !.current_structure = JointStock])
            = Len(load_base_templates.core_tasks)

\* C10: whatever calls were made, the task catalog and the rule catalog are
\* as the constructor loaded them.
C10_CatalogsUnchanged ==
    /\ base_templates = load_base_templates
    /\ variation_rules = load_variation_rules

\* the second call of a batch has built a working list with the module's
\* tasks, after a first call that returned
C10_Witness ==
    /\ caller = "batch"
    /\ k = 2
    /\ Len(result) = 1
    /\ pc = "returned"
    /\ Len(tasks) > Len(base_templates.core_tasks)
    /\ Len(timeline) = Len(tasks)

====
